---- MODULE Spec2Model ----
(***************************************************************************)
(* wrtkit: the fleet executor (fleet_executor.py) and the reconciler       *)
(* (config.py: UCIConfig.diff / UCIConfig.apply_diff /                     *)
(* ConfigDiff.get_removal_commands) as state machines.                     *)
(*                                                                         *)
(* SpecFleet  : FleetExecutor.apply() = stage() then commit(), with one    *)
(*              worker per device scheduled by a bounded thread pool.      *)
(* SpecRecon  : UCIConfig.apply_diff() of a local config against a device, *)
(*              for every local config and every device state in bounds.   *)
(* SpecDiff   : UCIConfig.diff() alone, over the same configs and devices. *)
(* SpecFetch  : UCIConfig.diff() over a transport that fails for some      *)
(*              packages.                                                  *)
(* SpecApply  : UCIConfig.apply_diff() or UCIConfig.apply(), live or dry.   *)
(* SpecPreview: FleetExecutor.preview().                                   *)
(* SpecCommit : FleetExecutor.stage() followed by FleetExecutor.commit()   *)
(*              calls made by the caller.                                  *)
(* SpecMatch  : RemotePolicy._match_path_pattern() on bounded paths and    *)
(*              patterns.                                                  *)
(* SpecParse  : UCIConfig._parse_uci_show_format() on bounded texts.       *)
(* SpecMask   : get_display_value() on bounded option names and values.    *)
(***************************************************************************)
EXTENDS Integers, Sequences, FiniteSets, TLC

VARIABLES
    \* ---- fleet executor ----
    mpc,          \* position of the thread that called FleetExecutor.apply()
    fut,          \* stage futures: "none" | "pending" | "running" | "done" | "cancelled"
    wpc,          \* position of stage_device(d) inside its worker, or how it left
    todo,         \* what apply_diff still has to send for device d
    wres,         \* DeviceResult.success returned by stage_device(d): "none" | "ok" | "fail"
    open,         \* the transport object of d is connected and not disconnected
    log,          \* what was done on d's transport, in order
    connections,  \* self._connections (its keys)
    staged,       \* self._staged_devices (its keys)
    collected,    \* futures the as_completed loop has yielded so far
    result,       \* stage FleetResult.devices: d -> "none" | "ok" | "fail"
    aborted,      \* stage FleetResult.aborted
    abortBy,      \* device named by stage FleetResult.abort_reason (0: none)
    rolled,       \* _rollback_all: the entries of self._connections already visited
    cfut,         \* commit futures: "none" | "running" | "done"
    cres,         \* DeviceResult.success returned by commit_device(d)
    commitResult, \* commit FleetResult.devices
    commitAborted,\* commit FleetResult.aborted as returned by apply()
    started,      \* on_device_start fired for d during stage
    completed,    \* on_device_complete fired for d during stage
    \* ---- reconciler (UCIConfig.apply_diff on one device) ----
    rpc,          \* "idle" | "diffed" | "exec" | "done" | "failed"
    localCfg,     \* the local configuration (self)
    remotePolicy, \* remote_policy.whitelist of each package of the local configuration
    device,       \* the UCI state of the device
    remote0,      \* the UCI state of the device when apply_diff was called
    args,         \* the arguments of the apply_diff call
    diffArgs,     \* show_remote_only and remove_packages of the diff call
    diff,         \* the ConfigDiff computed by apply_diff
    queue,        \* commands of the stream not yet sent
    sent,         \* every command sent to the transport, in order
    failedCmd,    \* the command named by the error apply_diff raised
    fetchRaised,  \* packages whose ssh.get_uci_config raised during diff
    \* ---- RemotePolicy._match_path_pattern ----
    mPath,        \* the path given to the matcher, as its segments
    mPattern,     \* the pattern given to the matcher, as its segments
    mResult,      \* "none" | "True" | "False": what the matcher returned
    \* ---- UCIConfig._parse_uci_show_format ----
    pLines,       \* the lines of the text given to the parser
    pCommands,    \* the commands the parser returned
    pDone,        \* the parser has returned
    \* ---- get_display_value ----
    kPath,        \* the path of the command rendered, as its segments
    kValue,       \* the stored value of the command, as its characters
    kDisplay,     \* what get_display_value returned, as its characters
    kDone         \* get_display_value has returned

fleetVars == <<mpc, fut, wpc, todo, wres, open, log, connections, staged,
               collected, result, aborted, abortBy, rolled, cfut, cres,
               commitResult, commitAborted, started, completed>>

reconVars == <<rpc, localCfg, remotePolicy, device, remote0, args, diffArgs,
               diff, queue, sent, failedCmd, fetchRaised>>

matchVars == <<mPath, mPattern, mResult>>

parseVars == <<pLines, pCommands, pDone>>

maskVars == <<kPath, kValue, kDisplay, kDone>>

pureVars == <<matchVars, parseVars, maskVars>>

vars == <<fleetVars, reconVars, pureVars>>

(***************************************************************************)
(* Bounds                                                                  *)
(***************************************************************************)
NumDevices == 3     \* devices selected by filter_devices
MaxWorkers == 2     \* max_workers given to stage()
MaxCmds == 2     \* mutation commands in one device's command stream

Devices == 1..NumDevices

(***************************************************************************)
(* Helpers                                                                 *)
(***************************************************************************)
Range(s) == {s[i] : i \in 1..Len(s)}

Has(s, e) == \E i \in 1..Len(s) : s[i] = e

\* e1 occurs in s and some later entry of s is e2
Before(s, e1, e2) == \E i, j \in 1..Len(s) : i < j /\ s[i] = e1 /\ s[j] = e2

Repeat(e, n) == [i \in 1..n |-> e]

(***************************************************************************)
(* Configurations: sections with scalar and list options                   *)
(***************************************************************************)
MaxListLen == 2     \* longest list option

Values == {"a", "b", "c"}

\* sections, as <<package, section>>
SecLan == <<"network", "br_lan">>
SecWifi == <<"wireless", "wifi">>

\* UCIConfig.get_all_commands: network before wireless
SectionOrder == <<SecLan, SecWifi>>

Sections == Range(SectionOrder)

SecType(s) == IF s = SecLan THEN "device" ELSE "wifi-iface"

\* the options of a section, in the order of its fields
OptOrder(s) == IF s = SecLan THEN <<"ports">> ELSE <<"ssid">>

NoOption == [kind |-> "none", vals |-> <<>>]

Scalar(v) == [kind |-> "scalar", vals |-> <<v>>]

List(vs) == [kind |-> "list", vals |-> vs]

\* lists of 1..n distinct values
ListsUpTo(n) ==
    UNION {{vs \in [1..k -> Values] : \A i, j \in 1..k : vs[i] = vs[j] => i = j}
           : k \in 1..n}

\* what an option of a present section s may hold: br_lan.ports is unset, a
\* scalar or a list, wifi.ssid a scalar
OptStates(s) ==
    IF s = SecLan
    THEN {NoOption} \cup {Scalar(v) : v \in Values}
                    \cup {List(vs) : vs \in ListsUpTo(MaxListLen)}
    ELSE {Scalar(v) : v \in {"a", "b"}}

AbsentSection(s) ==
    [present |-> FALSE, opts |-> [o \in Range(OptOrder(s)) |-> NoOption]]

SecStates(s) ==
    {AbsentSection(s)}
    \cup {[present |-> TRUE, opts |-> f] : f \in [Range(OptOrder(s)) -> OptStates(s)]}

\* a configuration (local tree, or the state of a device)
Configs == {c \in [Sections -> UNION {SecStates(s) : s \in Sections}] :
                \A s \in Sections : c[s] \in SecStates(s)}

(***************************************************************************)
(* UCICommand and the emission of a configuration                          *)
(***************************************************************************)
None == "None"

UCICommand(action, path, value) ==
    [action |-> action, path |-> path, value |-> value]

RECURSIVE Flatten(_)
Flatten(ss) == IF ss = <<>> THEN <<>> ELSE Head(ss) \o Flatten(Tail(ss))

\* UCISection.get_commands, the commands of one field
OptionCommands(s, o, st) ==
    IF st.kind = "list"
    THEN [i \in 1..Len(st.vals) |-> UCICommand("add_list", s \o <<o>>, st.vals[i])]
    ELSE IF st.kind = "scalar"
    THEN <<UCICommand("set", s \o <<o>>, st.vals[1])>>
    ELSE <<>>

SectionCommandsTypeLast(s, sec) ==
    IF ~sec.present THEN <<>>
    ELSE Flatten([i \in 1..Len(OptOrder(s)) |->
                    OptionCommands(s, OptOrder(s)[i], sec.opts[OptOrder(s)[i]])])
         \o <<UCICommand("set", s, SecType(s))>>

\* UCISection.get_commands: the section line, then every field
SectionCommands(s, sec) ==
    IF ~sec.present THEN <<>>
    ELSE <<UCICommand("set", s, SecType(s))>>
         \o Flatten([i \in 1..Len(OptOrder(s)) |->
                        OptionCommands(s, OptOrder(s)[i], sec.opts[OptOrder(s)[i]])])

\* UCIConfig.get_all_commands
GetAllCommands(cfg) ==
    Flatten([i \in 1..Len(SectionOrder) |->
                SectionCommands(SectionOrder[i], cfg[SectionOrder[i]])])

\* UCIConfig._parse_remote_config over the text the device exports: per
\* package, per section "config <type> '<name>'" gives a set, "option" a
\* set, "list" one add_list per line
ParseRemoteConfig(dev) ==
    Flatten([i \in 1..Len(SectionOrder) |->
                SectionCommands(SectionOrder[i], dev[SectionOrder[i]])])

\* UCIConfig._parse_remote_config when ssh.get_uci_config raises for the
\* packages in raised: the except branch prints a warning and continues, so
\* the commands of those packages are left out
ParseRemoteConfigRaising(dev, raised) ==
    Flatten([i \in 1..Len(SectionOrder) |->
                IF SectionOrder[i][1] \in raised THEN <<>>
                ELSE SectionCommands(SectionOrder[i], dev[SectionOrder[i]])])

(***************************************************************************)
(* RemotePolicy: the whitelist matcher                                     *)
(***************************************************************************)
MaxSegs == 3        \* longest path and longest pattern, in segments

\* literal segments, and the segments a pattern may hold besides
SegNames == {"a", "b"}

PatternSegs == SegNames \cup {"*", "**"}

SeqsUpTo(S, n) == UNION {[1..k -> S] : k \in 1..n}

\* ".".join(parts).split("."): no segment at all comes back as one empty
\* segment
SplitJoin(parts) == IF parts = <<>> THEN <<"">> ELSE parts

\* fnmatch.fnmatch(segment, pattern_segment) for a pattern segment without
\* glob characters
Fnmatch(segment, pattern_segment) == segment = pattern_segment

RECURSIVE MatchPathPattern(_, _)
RECURSIVE MatchLoop(_, _, _, _)
\* the while loop of _match_path_pattern, from p_idx and pat_idx (1-based)
MatchLoop(path_parts, pattern_parts, p_idx, pat_idx) ==
    IF p_idx <= Len(path_parts) /\ pat_idx <= Len(pattern_parts)
    THEN LET pattern_segment == pattern_parts[pat_idx]
         IN  IF pattern_segment = "**"
             THEN IF pat_idx = Len(pattern_parts) THEN TRUE
                  ELSE \E i \in p_idx..(Len(path_parts) + 1) :
                          MatchPathPattern(
                              SplitJoin(SubSeq(path_parts, i, Len(path_parts))),
                              SubSeq(pattern_parts, pat_idx + 1,
                                     Len(pattern_parts)))
             ELSE IF pattern_segment = "*"
             THEN MatchLoop(path_parts, pattern_parts, p_idx + 1, pat_idx + 1)
             ELSE IF Fnmatch(path_parts[p_idx], pattern_segment)
             THEN MatchLoop(path_parts, pattern_parts, p_idx + 1, pat_idx + 1)
             ELSE FALSE
    ELSE p_idx = Len(path_parts) + 1 /\ pat_idx = Len(pattern_parts) + 1

\* RemotePolicy._match_path_pattern on path.split(".") and
\* pattern.split(".")
MatchPathPattern(path_parts, pattern_parts) ==
    IF pattern_parts = <<"**">> THEN TRUE
    ELSE MatchLoop(path_parts, pattern_parts, 1, 1)

\* RemotePolicy.is_path_whitelisted: some pattern matches, or some pattern
\* ending in ".*" equals the path once the ".*" is cut
IsPathWhitelisted(whitelist, path_parts) ==
    \E pattern \in whitelist :
        \/ MatchPathPattern(path_parts, pattern)
        \/ /\ Len(pattern) >= 2
           /\ pattern[Len(pattern)] = "*"
           /\ path_parts = SubSeq(pattern, 1, Len(pattern) - 1)

(***************************************************************************)
(* UCIConfig._parse_uci_show_format                                        *)
(***************************************************************************)
MaxLines == 4       \* longest text given to the parser, in lines

\* "config <type> '<name>'", or "config <type>" when name is ""
ConfigLine(type, name) ==
    [kind |-> "config", type |-> type, name |-> name, value |-> ""]

\* "\toption <name> '<value>'"
OptionLine(name, value) ==
    [kind |-> "option", type |-> "", name |-> name, value |-> value]

\* "\tlist <name> '<value>'"
ListLine(name, value) ==
    [kind |-> "list", type |-> "", name |-> name, value |-> value]

ShowLines ==
    {ConfigLine("zone", "lan"), ConfigLine("zone", ""), ConfigLine("rule", ""),
     OptionLine("name", "a"), ListLine("network", "b")}

ShowPackage == "firewall"

\* line.split("'") of a section header: the quoted name is parts[1], and a
\* header without a quoted name splits into one part only
HeaderHasName(line) == line.name # ""

RECURSIVE ParseShowLines(_, _, _, _)
\* the loop of _parse_uci_show_format over the lines left, with
\* current_section and the commands appended so far
ParseShowLines(package, lines, current_section, commands) ==
    IF lines = <<>> THEN commands
    ELSE LET line == Head(lines)
         IN  IF line.kind = "config"
             THEN IF HeaderHasName(line)
                  THEN ParseShowLines(package, Tail(lines), line.name,
                           Append(commands,
                                  UCICommand("set", <<package, line.name>>,
                                             line.type)))
                  ELSE ParseShowLines(package, Tail(lines), current_section,
                                      commands)
             ELSE IF current_section # None
             THEN ParseShowLines(package, Tail(lines), current_section,
                      Append(commands,
                             UCICommand(IF line.kind = "list" THEN "add_list"
                                        ELSE "set",
                                        <<package, current_section, line.name>>,
                                        line.value)))
             ELSE ParseShowLines(package, Tail(lines), current_section, commands)

\* UCIConfig._parse_uci_show_format(package, config_str)
ParseUciShowFormat(package, lines) == ParseShowLines(package, lines, None, <<>>)

\* the parser is not running
ParseParked ==
    /\ pLines = <<>>
    /\ pCommands = <<>>
    /\ pDone = FALSE

\* a text, before the parser is called
ParseInit ==
    /\ pLines \in SeqsUpTo(ShowLines, MaxLines)
    /\ pCommands = <<>>
    /\ pDone = FALSE

\* self._parse_uci_show_format(package, config_str)
ParseCall ==
    /\ ~pDone
    /\ pCommands' = ParseUciShowFormat(ShowPackage, pLines)
    /\ pDone' = TRUE
    /\ UNCHANGED pLines
    /\ UNCHANGED <<fleetVars, reconVars, matchVars, maskVars>>

(***************************************************************************)
(* Sensitive values: mask_sensitive_value and get_display_value            *)
(***************************************************************************)
SENSITIVE_FIELDS ==
    {"key", "password", "wpakey", "sae_password", "psk", "secret",
     "auth_secret", "priv_passwd", "auth_passwd"}

MaxValueLen == 5    \* longest stored value, in characters

\* the default of the visible_chars parameter
VisibleChars == 3

\* option names a path may end with, one of them in mixed case
FieldNames == {"key", "Key", "ssid"}

\* field_name.lower()
Lower(name) == IF name = "Key" THEN "key" ELSE name

\* the characters of a value
ValueChars == {"a", "b", "*"}

\* value is None
NoValue == <<"None">>

\* str(None)
StrNone == <<"N", "o", "n", "e">>

\* "*" * n
Stars(n) == [i \in 1..n |-> "*"]

\* the mask is left out
MaskNothing(value, visible_chars) ==
    IF value = NoValue THEN StrNone ELSE value

\* mask_sensitive_value(value, visible_chars)
MaskSensitiveValue(value, visible_chars) ==
    IF value = NoValue THEN StrNone
    ELSE IF Len(value) <= visible_chars THEN Stars(Len(value))
    ELSE SubSeq(value, 1, visible_chars) \o Stars(Len(value) - visible_chars)

\* get_display_value(path, value), path given as path.split(".")
GetDisplayValue(parts, value) ==
    LET field_name == IF parts # <<>> THEN parts[Len(parts)] ELSE ""
    IN  IF Lower(field_name) \in SENSITIVE_FIELDS
        THEN MaskSensitiveValue(value, VisibleChars)
        ELSE IF value # NoValue THEN value ELSE StrNone

\* get_display_value is not running
MaskParked ==
    /\ kPath = <<>>
    /\ kValue = <<>>
    /\ kDisplay = <<>>
    /\ kDone = FALSE

\* a command of the diff, before it is rendered
MaskInit ==
    /\ kPath \in {<<"wireless", "wifi", f>> : f \in FieldNames}
    /\ kValue \in SeqsUpTo(ValueChars, MaxValueLen) \cup {NoValue}
    /\ kDisplay = <<>>
    /\ kDone = FALSE

\* display_value = get_display_value(cmd.path, cmd.value)
DisplayCall ==
    /\ ~kDone
    /\ kDisplay' = GetDisplayValue(kPath, kValue)
    /\ kDone' = TRUE
    /\ UNCHANGED <<kPath, kValue>>
    /\ UNCHANGED <<fleetVars, reconVars, matchVars, parseVars>>

(***************************************************************************)
(* UCIConfig.diff                                                          *)
(***************************************************************************)
Key(c) == <<c.path, c.value>>

\* {(cmd.path, cmd.value) for cmd in commands}
KeySet(cmds) == {Key(cmds[i]) : i \in 1..Len(cmds)}

\* {c.path for c in commands}
PathSet(cmds) == {cmds[i].path : i \in 1..Len(cmds)}

NoSetPaths(cmds) == {}

\* {c.path for c in commands if c.action == "set"}
SetPaths(cmds) ==
    {cmds[i].path : i \in {j \in 1..Len(cmds) : cmds[j].action = "set"}}

\* diff._local_sections / diff._remote_sections
SectionsOf(cmds) ==
    {<<cmds[i].path[1], cmds[i].path[2]>> : i \in 1..Len(cmds)}

\* next(c for c in remote_commands if c.path == path and c.action == "set")
FirstSet(cmds, path) ==
    cmds[CHOOSE i \in 1..Len(cmds) :
            /\ cmds[i].path = path /\ cmds[i].action = "set"
            /\ \A j \in 1..(i - 1) :
                  ~(cmds[j].path = path /\ cmds[j].action = "set")]

\* remove_packages: None, or a list of packages
NoPackages == [given |-> FALSE, pkgs |-> {}]

Packages(ps) == [given |-> TRUE, pkgs |-> ps]

ShouldRemoveAll(pkg, show_remote_only, remove_packages) == ~show_remote_only

\* should_remove of one remote command
ShouldRemove(pkg, show_remote_only, remove_packages) ==
    IF remove_packages.given THEN pkg \in remove_packages.pkgs
    ELSE ~show_remote_only

MapSeq(s, F(_)) == [i \in 1..Len(s) |-> F(s[i])]

InRemoteByPath(c, remote) == c.path \in PathSet(remote)

\* "key in remote_set" of the loop over the local commands
InRemote(c, remote) == Key(c) \in KeySet(remote)

\* ConfigDiff as UCIConfig.diff fills it
Diff(local, remote, show_remote_only, remove_packages) ==
    LET local_set == KeySet(local)
        local_paths == PathSet(local)
        remote_paths == SetPaths(remote)
        IsAdd(c) == /\ ~InRemote(c, remote)
                    /\ (c.action = "add_list" \/ c.path \notin remote_paths)
        IsModify(c) == /\ ~InRemote(c, remote)
                       /\ c.action # "add_list"
                       /\ c.path \in remote_paths
        IsCommon(c) == InRemote(c, remote)
        Pair(c) == <<FirstSet(remote, c.path), c>>
        Unmanaged(c) == /\ Key(c) \notin local_set
                        /\ (c.action = "add_list" \/ c.path \notin local_paths)
        Remove(c) == ShouldRemove(c.path[1], show_remote_only, remove_packages)
        IsRemove(c) == Unmanaged(c) /\ Remove(c)
        IsRemoteOnly(c) == Unmanaged(c) /\ ~Remove(c)
    IN  [to_add |-> SelectSeq(local, IsAdd),
         to_modify |-> MapSeq(SelectSeq(local, IsModify), Pair),
         common |-> SelectSeq(local, IsCommon),
         to_remove |-> SelectSeq(remote, IsRemove),
         remote_only |-> SelectSeq(remote, IsRemoteOnly),
         local_sections |-> SectionsOf(local),
         remote_sections |-> SectionsOf(remote)]

\* the whitelisted sequence of a ConfigDiff: the class has none, diff never
\* routes a command to it
DiffWhitelisted(df) == <<>>

\* the path a whitelist pattern is matched against: the path without its
\* package
RelativePath(path) == Tail(path)

\* ConfigDiff.is_empty
IsEmpty(df) ==
    df.to_add = <<>> /\ df.to_remove = <<>> /\ df.to_modify = <<>>
    /\ df.remote_only = <<>>

NoSectionRemoteOnly(df, s) == FALSE

\* ConfigDiff.is_section_remote_only
IsSectionRemoteOnly(df, s) ==
    s \notin df.local_sections /\ s \in df.remote_sections

\* ConfigDiff.get_removal_commands(packages=None)
GetRemovalCommands(df) ==
    LET deleted_sections ==
            {df.to_remove[i].path : i \in
                {j \in 1..Len(df.to_remove) :
                    /\ Len(df.to_remove[j].path) = 2
                    /\ IsSectionRemoteOnly(df, df.to_remove[j].path)}}
        Removal(c) ==
            IF Len(c.path) = 2 THEN <<UCICommand("delete", c.path, None)>>
            ELSE IF <<c.path[1], c.path[2]>> \in deleted_sections THEN <<>>
            ELSE IF c.action = "add_list"
            THEN <<UCICommand("del_list", c.path, c.value)>>
            ELSE <<UCICommand("delete", c.path, None)>>
    IN  Flatten(MapSeq(df.to_remove, Removal))

(***************************************************************************)
(* Commands that follow the mutation commands in apply_diff                *)
(***************************************************************************)
\* SSHConnection.reload_config() called without changed_packages
ReloadCommands == <<"network restart", "wifi reload", "dnsmasq restart">>

\* apply_diff: "uci commit" if auto_commit, then the reloads if auto_reload
TailCommands(auto_commit, auto_reload) ==
    (IF auto_commit THEN <<"uci commit">> ELSE <<>>)
    \o (IF auto_reload THEN ReloadCommands ELSE <<>>)

\* the arguments stage_device passes to apply_diff
StageAutoCommit == FALSE
StageAutoReload == FALSE

\* the steps of the command commit_device sends, in the order of the text
CommitSteps == <<"sleep", "uci commit", "network restart", "wifi reload">>

RECURSIVE JoinAnd(_)
\* " && ".join(steps)
JoinAnd(steps) ==
    IF Len(steps) = 0 THEN ""
    ELSE IF Len(steps) = 1 THEN steps[1]
    ELSE steps[1] \o " && " \o JoinAnd(Tail(steps))

\* the detached command commit_device sends: one transport exec
CommitCmd == "nohup sh -c '" \o JoinAnd(CommitSteps) \o "' > /dev/null 2>&1 &"

IsCommit(e) == e = "uci commit" \/ e = CommitCmd

(***************************************************************************)
(* FleetExecutor.stage                                                     *)
(***************************************************************************)
FleetInit ==
    /\ mpc = "idle"
    /\ fut = [d \in Devices |-> "none"]
    /\ wpc = [d \in Devices |-> "none"]
    /\ todo = [d \in Devices |-> <<>>]
    /\ wres = [d \in Devices |-> "none"]
    /\ open = [d \in Devices |-> FALSE]
    /\ log = [d \in Devices |-> <<>>]
    /\ connections = {}
    /\ staged = {}
    /\ collected = {}
    /\ result = [d \in Devices |-> "none"]
    /\ aborted = FALSE
    /\ abortBy = 0
    /\ rolled = {}
    /\ cfut = [d \in Devices |-> "none"]
    /\ cres = [d \in Devices |-> "none"]
    /\ commitResult = [d \in Devices |-> "none"]
    /\ commitAborted = FALSE
    /\ started = {}
    /\ completed = {}

\* stage(): clear the two dicts, submit one future per device
StageBegin ==
    /\ mpc = "idle"
    /\ mpc' = "collect"
    /\ connections' = {}
    /\ staged' = {}
    /\ fut' = [d \in Devices |-> "pending"]
    /\ UNCHANGED <<wpc, todo, wres, open, log, collected, result, aborted,
                   abortBy, rolled, cfut, cres, commitResult, commitAborted,
                   started, completed>>
    /\ UNCHANGED <<reconVars, pureVars>>

Running == {d \in Devices : fut[d] = "running"}

\* the except branch of stage_device: a failed DeviceResult, nothing else
WorkerFail(d) ==
    /\ wpc' = [wpc EXCEPT ![d] = "returned"]
    /\ wres' = [wres EXCEPT ![d] = "fail"]
    /\ fut' = [fut EXCEPT ![d] = "done"]
    /\ todo' = [todo EXCEPT ![d] = <<>>]

\* merge_device_configs raised (missing file, malformed document,
\* unresolved interpolation): the except branch of stage_device
DocumentFail(d) ==
    /\ wpc' = [wpc EXCEPT ![d] = "document error"]
    /\ wres' = [wres EXCEPT ![d] = "fail"]
    /\ fut' = [fut EXCEPT ![d] = "done"]
    /\ todo' = [todo EXCEPT ![d] = <<>>]

\* The pool hands the oldest pending future to a free worker thread;
\* stage_device fires on_device_start and calls merge_device_configs,
\* which returns the config or raises (document error).
WorkerStart(d) ==
    /\ fut[d] = "pending"
    /\ \A e \in Devices : e < d => fut[e] # "pending"
    /\ Cardinality(Running) < MaxWorkers
    /\ started' = started \cup {d}
    /\ \E ok \in BOOLEAN :
         IF ok THEN /\ fut' = [fut EXCEPT ![d] = "running"]
                    /\ wpc' = [wpc EXCEPT ![d] = "connect"]
                    /\ UNCHANGED <<wres, todo>>
               ELSE DocumentFail(d)
    /\ UNCHANGED <<mpc, open, log, connections, staged, collected, result,
                   aborted, abortBy, rolled, cfut, cres, commitResult,
                   commitAborted, completed>>
    /\ UNCHANGED <<reconVars, pureVars>>

\* conn.connect() opens the transport or raises ConnectionError; then
\* apply_diff up to its command list: the mutation commands followed by
\* the tail, or nothing at all when the diff is empty
WorkerConnect(d) ==
    /\ wpc[d] = "connect"
    /\ \E ok \in BOOLEAN :
         IF ok
         THEN /\ wpc' = [wpc EXCEPT ![d] = "exec"]
              /\ open' = [open EXCEPT ![d] = TRUE]
              /\ log' = [log EXCEPT ![d] = Append(@, "connect")]
              /\ \E empty \in BOOLEAN :
                   todo' = [todo EXCEPT ![d] =
                        IF empty THEN <<>>
                        ELSE Repeat("mutation", MaxCmds)
                             \o TailCommands(StageAutoCommit, StageAutoReload)]
              /\ UNCHANGED <<wres, fut>>
         ELSE /\ WorkerFail(d)
              /\ UNCHANGED <<open, log>>
    /\ UNCHANGED <<mpc, connections, staged, collected, result, aborted,
                   abortBy, rolled, cfut, cres, commitResult, commitAborted,
                   started, completed>>
    /\ UNCHANGED <<reconVars, pureVars>>

\* one ssh.execute of apply_diff: a non-zero exit or an exception of a
\* mutation or of "uci commit" ends stage_device in its except branch
WorkerExec(d) ==
    /\ wpc[d] = "exec"
    /\ todo[d] # <<>>
    /\ log' = [log EXCEPT ![d] = Append(@, Head(todo[d]))]
    /\ \E ok \in BOOLEAN :
         IF ok \/ Head(todo[d]) \in Range(ReloadCommands)
         THEN /\ todo' = [todo EXCEPT ![d] = Tail(@)]
              /\ UNCHANGED <<wpc, wres, fut>>
         ELSE WorkerFail(d)
    /\ UNCHANGED <<mpc, open, connections, staged, collected, result, aborted,
                   abortBy, rolled, cfut, cres, commitResult, commitAborted,
                   started, completed>>
    /\ UNCHANGED <<reconVars, pureVars>>

\* apply_diff returned: keep the connection for the commit phase
WorkerRegister(d) ==
    /\ wpc[d] = "exec"
    /\ todo[d] = <<>>
    /\ connections' = connections \cup {d}
    /\ staged' = staged \cup {d}
    /\ wpc' = [wpc EXCEPT ![d] = "returned"]
    /\ wres' = [wres EXCEPT ![d] = "ok"]
    /\ fut' = [fut EXCEPT ![d] = "done"]
    /\ UNCHANGED <<mpc, todo, open, log, collected, result, aborted, abortBy,
                   rolled, cfut, cres, commitResult, commitAborted, started,
                   completed>>
    /\ UNCHANGED <<reconVars, pureVars>>

\* One iteration of "for future in as_completed(futures)": record the
\* result, notify, and on a failure set aborted, cancel what has not
\* started and leave the loop.
StageCollect(d) ==
    /\ mpc = "collect"
    /\ fut[d] = "done"
    /\ d \notin collected
    /\ collected' = collected \cup {d}
    /\ result' = [result EXCEPT ![d] = wres[d]]
    /\ completed' = completed \cup {d}
    /\ IF wres[d] = "fail"
       THEN /\ aborted' = TRUE
            /\ abortBy' = d
            /\ fut' = [e \in Devices |->
                          IF fut[e] = "pending" THEN "cancelled" ELSE fut[e]]
            /\ mpc' = "join"
       ELSE /\ mpc' = IF collected' = Devices THEN "join" ELSE "collect"
            /\ UNCHANGED <<aborted, abortBy, fut>>
    /\ UNCHANGED <<wpc, todo, wres, open, log, connections, staged, rolled, cfut,
                   cres, commitResult, commitAborted, started>>
    /\ UNCHANGED <<reconVars, pureVars>>

\* Leaving the "with ThreadPoolExecutor" block: shutdown(wait=True) returns
\* when no worker is running any more.
StageJoin ==
    /\ mpc = "join"
    /\ \A d \in Devices : fut[d] \in {"done", "cancelled"}
    /\ mpc' = IF aborted THEN "rollback" ELSE "staged"
    /\ rolled' = {}
    /\ UNCHANGED <<fut, wpc, todo, wres, open, log, connections, staged,
                   collected, result, aborted, abortBy, cfut, cres,
                   commitResult, commitAborted, started, completed>>
    /\ UNCHANGED <<reconVars, pureVars>>

\* _rollback_all, one entry of self._connections: execute("uci revert")
\* and disconnect() share one try block, so a raising execute skips the
\* disconnect.
RollbackDevice(d) ==
    /\ mpc = "rollback"
    /\ d \in connections \ rolled
    /\ \E raises \in BOOLEAN :
         IF raises
         THEN /\ log' = [log EXCEPT ![d] = Append(@, "uci revert")]
              /\ UNCHANGED open
         ELSE /\ log' = [log EXCEPT ![d] = @ \o <<"uci revert", "disconnect">>]
              /\ open' = [open EXCEPT ![d] = FALSE]
    /\ rolled' = rolled \cup {d}
    /\ UNCHANGED <<mpc, fut, wpc, todo, wres, connections, staged, collected,
                   result, aborted, abortBy, cfut, cres, commitResult,
                   commitAborted, started, completed>>
    /\ UNCHANGED <<reconVars, pureVars>>

\* _rollback_all without the two clear() calls
RollbackEndNoClear ==
    /\ mpc = "rollback"
    /\ rolled = connections
    /\ mpc' = "staged"
    /\ UNCHANGED <<fut, wpc, todo, wres, open, log, collected, result, aborted,
                   abortBy, rolled, cfut, cres, commitResult, commitAborted,
                   started, completed, connections, staged>>
    /\ UNCHANGED <<reconVars, pureVars>>

\* _rollback_all: clear both dicts; stage() returns
RollbackEnd ==
    /\ mpc = "rollback"
    /\ rolled = connections
    /\ connections' = {}
    /\ staged' = {}
    /\ mpc' = "staged"
    /\ UNCHANGED <<fut, wpc, todo, wres, open, log, collected, result, aborted,
                   abortBy, rolled, cfut, cres, commitResult, commitAborted,
                   started, completed>>
    /\ UNCHANGED <<reconVars, pureVars>>

(***************************************************************************)
(* FleetExecutor.apply and FleetExecutor.commit                            *)
(***************************************************************************)
\* FleetResult.all_successful
AllSuccessful(res) == \A d \in Devices : res[d] # "fail"

SkipCommitAlways(ab, res) == FALSE

\* apply(): "if stage_result.aborted or not stage_result.all_successful"
SkipCommit(ab, res) == ab \/ ~AllSuccessful(res)

\* apply() after stage() returned: either return an aborted commit result,
\* or call commit(), which returns at once when it holds no connection and
\* otherwise submits one commit_device per connection.
ApplyDecide ==
    /\ mpc = "staged"
    /\ IF SkipCommit(aborted, result)
       THEN /\ commitAborted' = TRUE
            /\ mpc' = "done"
            /\ UNCHANGED cfut
       ELSE /\ UNCHANGED commitAborted
            /\ IF connections = {}
               THEN /\ mpc' = "done"
                    /\ UNCHANGED cfut
               ELSE /\ mpc' = "commit"
                    /\ cfut' = [d \in Devices |->
                                   IF d \in connections THEN "running"
                                   ELSE "none"]
    /\ UNCHANGED <<fut, wpc, todo, wres, open, log, connections, staged,
                   collected, result, aborted, abortBy, rolled, cres, commitResult,
                   started, completed>>
    /\ UNCHANGED <<reconVars, pureVars>>

\* commit() called on its own, after stage() or an earlier commit()
\* returned: a fresh FleetResult; return at once when self._connections is
\* empty, otherwise submit one commit_device per connection
CommitCall ==
    /\ mpc \in {"staged", "done"}
    /\ commitResult' = [d \in Devices |-> "none"]
    /\ IF connections = {}
       THEN /\ mpc' = "done"
            /\ UNCHANGED cfut
       ELSE /\ mpc' = "commit"
            /\ cfut' = [d \in Devices |->
                           IF d \in connections THEN "running" ELSE "none"]
    /\ UNCHANGED <<fut, wpc, todo, wres, open, log, connections, staged,
                   collected, result, aborted, abortBy, rolled, cres,
                   commitAborted, started, completed>>
    /\ UNCHANGED <<reconVars, pureVars>>

\* commit_device without its finally block
CommitDeviceNoFinally(d) ==
    /\ cfut[d] = "running"
    /\ \E ok \in BOOLEAN :
         /\ cres' = [cres EXCEPT ![d] = IF ok THEN "ok" ELSE "fail"]
         /\ IF ok
            THEN /\ log' = [log EXCEPT ![d] = @ \o <<CommitCmd, "disconnect">>]
                 /\ open' = [open EXCEPT ![d] = FALSE]
            ELSE /\ log' = [log EXCEPT ![d] = Append(@, CommitCmd)]
                 /\ UNCHANGED open
    /\ cfut' = [cfut EXCEPT ![d] = "done"]
    /\ UNCHANGED <<mpc, fut, wpc, todo, wres, connections, staged, collected,
                   result, aborted, abortBy, rolled, commitResult,
                   commitAborted, started, completed>>
    /\ UNCHANGED <<reconVars, pureVars>>

\* commit_device: conn.execute(commit_cmd) returns or raises, and the
\* finally block disconnects
CommitDevice(d) ==
    /\ cfut[d] = "running"
    /\ log' = [log EXCEPT ![d] = @ \o <<CommitCmd, "disconnect">>]
    /\ open' = [open EXCEPT ![d] = FALSE]
    /\ \E ok \in BOOLEAN : cres' = [cres EXCEPT ![d] = IF ok THEN "ok" ELSE "fail"]
    /\ cfut' = [cfut EXCEPT ![d] = "done"]
    /\ UNCHANGED <<mpc, fut, wpc, todo, wres, connections, staged, collected,
                   result, aborted, abortBy, rolled, commitResult,
                   commitAborted, started, completed>>
    /\ UNCHANGED <<reconVars, pureVars>>

\* commit(): one iteration of the as_completed loop
CommitCollect(d) ==
    /\ mpc = "commit"
    /\ cfut[d] = "done"
    /\ commitResult[d] = "none"
    /\ commitResult' = [commitResult EXCEPT ![d] = cres[d]]
    /\ UNCHANGED <<mpc, fut, wpc, todo, wres, open, log, connections, staged,
                   collected, result, aborted, abortBy, rolled, cfut, cres,
                   commitAborted, started, completed>>
    /\ UNCHANGED <<reconVars, pureVars>>

\* commit(): the loop is over, clear both dicts and return
CommitEnd ==
    /\ mpc = "commit"
    /\ \A d \in connections : commitResult[d] # "none"
    /\ connections' = {}
    /\ staged' = {}
    /\ mpc' = "done"
    /\ UNCHANGED <<fut, wpc, todo, wres, open, log, collected, result, aborted,
                   abortBy, rolled, cfut, cres, commitResult, commitAborted,
                   started, completed>>
    /\ UNCHANGED <<reconVars, pureVars>>

FleetNext ==
    \/ StageBegin
    \/ \E d \in Devices : WorkerStart(d)
    \/ \E d \in Devices : WorkerConnect(d)
    \/ \E d \in Devices : WorkerExec(d)
    \/ \E d \in Devices : WorkerRegister(d)
    \/ \E d \in Devices : StageCollect(d)
    \/ StageJoin
    \/ \E d \in Devices : RollbackDevice(d)
    \/ RollbackEnd
    \/ ApplyDecide
    \/ \E d \in Devices : CommitDevice(d)
    \/ \E d \in Devices : CommitCollect(d)
    \/ CommitEnd

\* stage() followed by any number of commit() calls
CommitNext ==
    \/ StageBegin
    \/ \E d \in Devices : WorkerStart(d)
    \/ \E d \in Devices : WorkerConnect(d)
    \/ \E d \in Devices : WorkerExec(d)
    \/ \E d \in Devices : WorkerRegister(d)
    \/ \E d \in Devices : StageCollect(d)
    \/ StageJoin
    \/ \E d \in Devices : RollbackDevice(d)
    \/ RollbackEnd
    \/ CommitCall
    \/ \E d \in Devices : CommitDevice(d)
    \/ \E d \in Devices : CommitCollect(d)
    \/ CommitEnd

(***************************************************************************)
(* FleetExecutor.preview                                                   *)
(***************************************************************************)
\* preview(): submit one future per device
PreviewBegin ==
    /\ mpc = "idle"
    /\ mpc' = "preview"
    /\ fut' = [d \in Devices |-> "pending"]
    /\ UNCHANGED <<wpc, todo, wres, open, log, connections, staged, collected,
                   result, aborted, abortBy, rolled, cfut, cres, commitResult,
                   commitAborted, started, completed>>
    /\ UNCHANGED <<reconVars, pureVars>>

\* The pool hands the oldest pending future to a free worker thread;
\* preview_device fires on_device_start and calls merge_device_configs,
\* which returns the config or raises.
PreviewStart(d) ==
    /\ mpc = "preview"
    /\ fut[d] = "pending"
    /\ \A e \in Devices : e < d => fut[e] # "pending"
    /\ Cardinality(Running) < MaxWorkers
    /\ started' = started \cup {d}
    /\ \E ok \in BOOLEAN :
         IF ok THEN /\ fut' = [fut EXCEPT ![d] = "running"]
                    /\ wpc' = [wpc EXCEPT ![d] = "connect"]
                    /\ UNCHANGED <<wres, todo>>
               ELSE WorkerFail(d)
    /\ UNCHANGED <<mpc, open, log, connections, staged, collected, result,
                   aborted, abortBy, rolled, cfut, cres, commitResult,
                   commitAborted, completed>>
    /\ UNCHANGED <<reconVars, pureVars>>

\* "with conn:" enters: conn.connect() opens the transport or raises
PreviewConnect(d) ==
    /\ mpc = "preview"
    /\ wpc[d] = "connect"
    /\ \E ok \in BOOLEAN :
         IF ok
         THEN /\ wpc' = [wpc EXCEPT ![d] = "diff"]
              /\ open' = [open EXCEPT ![d] = TRUE]
              /\ log' = [log EXCEPT ![d] = Append(@, "connect")]
              /\ UNCHANGED <<wres, fut, todo>>
         ELSE /\ WorkerFail(d)
              /\ UNCHANGED <<open, log>>
    /\ UNCHANGED <<mpc, connections, staged, collected, result, aborted,
                   abortBy, rolled, cfut, cres, commitResult, commitAborted,
                   started, completed>>
    /\ UNCHANGED <<reconVars, pureVars>>

\* config.diff(conn, show_remote_only=True) reads the remote configuration
\* ("uci export <package>") and returns or raises; leaving the with block
\* disconnects in both cases
PreviewDiff(d) ==
    /\ mpc = "preview"
    /\ wpc[d] = "diff"
    /\ log' = [log EXCEPT ![d] = @ \o <<"uci export", "disconnect">>]
    /\ open' = [open EXCEPT ![d] = FALSE]
    /\ wpc' = [wpc EXCEPT ![d] = "returned"]
    /\ \E ok \in BOOLEAN : wres' = [wres EXCEPT ![d] = IF ok THEN "ok" ELSE "fail"]
    /\ fut' = [fut EXCEPT ![d] = "done"]
    /\ UNCHANGED <<mpc, todo, connections, staged, collected, result, aborted,
                   abortBy, rolled, cfut, cres, commitResult, commitAborted,
                   started, completed>>
    /\ UNCHANGED <<reconVars, pureVars>>

PreviewCollectFailFast(d) ==
    /\ mpc = "preview"
    /\ fut[d] = "done"
    /\ d \notin collected
    /\ result' = [result EXCEPT ![d] = wres[d]]
    /\ completed' = completed \cup {d}
    /\ IF wres[d] = "fail"
       THEN /\ fut' = [e \in Devices |->
                          IF fut[e] = "pending" THEN "cancelled" ELSE fut[e]]
            /\ collected' = Devices
       ELSE /\ collected' = collected \cup {d}
            /\ UNCHANGED fut
    /\ UNCHANGED <<mpc, wpc, todo, wres, open, log, connections, staged, aborted,
                   abortBy, rolled, cfut, cres, commitResult, commitAborted,
                   started>>
    /\ UNCHANGED <<reconVars, pureVars>>

\* One iteration of "for future in as_completed(futures)" of preview:
\* record the result and notify; the loop has no break.
PreviewCollect(d) ==
    /\ mpc = "preview"
    /\ fut[d] = "done"
    /\ d \notin collected
    /\ collected' = collected \cup {d}
    /\ result' = [result EXCEPT ![d] = wres[d]]
    /\ completed' = completed \cup {d}
    /\ UNCHANGED <<mpc, fut, wpc, todo, wres, open, log, connections, staged,
                   aborted, abortBy, rolled, cfut, cres, commitResult,
                   commitAborted, started>>
    /\ UNCHANGED <<reconVars, pureVars>>

\* the loop is over and the pool has shut down: preview() returns
PreviewEnd ==
    /\ mpc = "preview"
    /\ collected = Devices
    /\ \A d \in Devices : fut[d] \in {"done", "cancelled"}
    /\ mpc' = "previewed"
    /\ UNCHANGED <<fut, wpc, todo, wres, open, log, connections, staged,
                   collected, result, aborted, abortBy, rolled, cfut, cres,
                   commitResult, commitAborted, started, completed>>
    /\ UNCHANGED <<reconVars, pureVars>>

PreviewNext ==
    \/ PreviewBegin
    \/ \E d \in Devices : PreviewStart(d)
    \/ \E d \in Devices : PreviewConnect(d)
    \/ \E d \in Devices : PreviewDiff(d)
    \/ \E d \in Devices : PreviewCollect(d)
    \/ PreviewEnd

(***************************************************************************)
(* The device: what the uci tool does with one command                     *)
(***************************************************************************)
Accepted(dev) == [ok |-> TRUE, dev |-> dev]

Rejected(dev) == [ok |-> FALSE, dev |-> dev]

\* uci set / add_list / del_list / delete on the state dev
UciExec(dev, c) ==
    LET s == <<c.path[1], c.path[2]>>
        sec == dev[s]
        o == c.path[3]
        cur == sec.opts[o]
        With(st) == Accepted([dev EXCEPT ![s].opts[o] = st])
    IN  IF Len(c.path) = 2
        THEN IF c.action = "set"
             THEN Accepted([dev EXCEPT ![s].present = TRUE])
             ELSE IF sec.present THEN Accepted([dev EXCEPT ![s] = AbsentSection(s)])
                  ELSE Rejected(dev)
        ELSE IF ~sec.present THEN Rejected(dev)
        ELSE IF c.action = "set" THEN With(Scalar(c.value))
        ELSE IF c.action = "add_list" THEN With(List(cur.vals \o <<c.value>>))
        ELSE IF c.action = "del_list"
        THEN IF cur.kind # "list" THEN Accepted(dev)
             ELSE LET rest == SelectSeq(cur.vals, LAMBDA v : v # c.value)
                  IN  With(IF rest = <<>> THEN NoOption ELSE List(rest))
        ELSE IF cur.kind = "none" THEN Rejected(dev)
        ELSE With(NoOption)

(***************************************************************************)
(* UCIConfig.apply_diff                                                    *)
(***************************************************************************)
\* remove_unmanaged: False, True, or a list of packages ("on": its truth value)
RemoveNone == [list |-> FALSE, on |-> FALSE, pkgs |-> {}]

RemoveAll == [list |-> FALSE, on |-> TRUE, pkgs |-> {}]

RemoveIn(ps) == [list |-> TRUE, on |-> ps # {}, pkgs |-> ps]

ApplyArgs ==
    [remove_unmanaged : {RemoveNone, RemoveAll, RemoveIn({"wireless"})},
     dry_run : BOOLEAN, auto_commit : BOOLEAN, auto_reload : BOOLEAN]

\* the arguments of the self.diff call apply_diff makes for its
\* remove_unmanaged
ApplyDiffArgs(ru) ==
    IF ru.list
    THEN [show_remote_only |-> TRUE, remove_packages |-> Packages(ru.pkgs)]
    ELSE IF ru.on
    THEN [show_remote_only |-> FALSE, remove_packages |-> NoPackages]
    ELSE [show_remote_only |-> TRUE, remove_packages |-> NoPackages]

\* UCIConfig.diff of the configuration cfg against the device dev
ConfigDiff(cfg, dev, da) ==
    Diff(GetAllCommands(cfg), ParseRemoteConfig(dev), da.show_remote_only,
         da.remove_packages)

Second(pair) == pair[2]

CommandsToRunAddsFirst(df, ru) ==
    df.to_add
    \o (IF ru.on /\ df.to_remove # <<>> THEN GetRemovalCommands(df) ELSE <<>>)
    \o MapSeq(df.to_modify, Second)

\* commands_to_run: removals, then to_add, then the new command of every
\* to_modify pair
CommandsToRun(df, ru) ==
    (IF ru.on /\ df.to_remove # <<>> THEN GetRemovalCommands(df) ELSE <<>>)
    \o df.to_add
    \o MapSeq(df.to_modify, Second)

\* "uci commit" and the reload commands, as entries of the stream
ShellCommand(text) == [action |-> "shell", path |-> <<text>>, value |-> None]

IsReload(c) == c.action = "shell" /\ c.path[1] \in Range(ReloadCommands)

IsCommitCmd(c) == c = ShellCommand("uci commit")

IsDeletion(c) == c.action \in {"delete", "del_list"}

NoCommand == [action |-> "none", path |-> <<>>, value |-> None]

EmptyDiff ==
    [to_add |-> <<>>, to_modify |-> <<>>, common |-> <<>>, to_remove |-> <<>>,
     remote_only |-> <<>>, local_sections |-> {}, remote_sections |-> {}]

DefaultArgs ==
    [remove_unmanaged |-> RemoveNone, dry_run |-> FALSE, auto_commit |-> TRUE,
     auto_reload |-> TRUE]

EmptyConfig == [s \in Sections |-> AbsentSection(s)]

\* the packages of the model's sections
PackageNames == {s[1] : s \in Sections}

\* remote_policy of a package: no whitelist, or the whitelist ["**"]
Whitelists == {{}, {<<"**">>}}

Policies == [PackageNames -> Whitelists]

NoPolicies == [pkg \in PackageNames |-> {}]

\* the reconciler is not running (fleet specification)
ReconParked ==
    /\ rpc = "parked"
    /\ localCfg = EmptyConfig
    /\ remotePolicy = NoPolicies
    /\ device = EmptyConfig
    /\ remote0 = EmptyConfig
    /\ args = DefaultArgs
    /\ diffArgs = ApplyDiffArgs(RemoveNone)
    /\ diff = EmptyDiff
    /\ queue = <<>>
    /\ sent = <<>>
    /\ failedCmd = NoCommand
    /\ fetchRaised = {}

\* a local configuration and a device, before apply_diff is called
ReconInit ==
    /\ rpc = "idle"
    /\ localCfg \in Configs
    /\ remotePolicy = NoPolicies
    /\ device \in Configs
    /\ remote0 = device
    /\ args = DefaultArgs
    /\ diffArgs = ApplyDiffArgs(RemoveNone)
    /\ diff = EmptyDiff
    /\ queue = <<>>
    /\ sent = <<>>
    /\ failedCmd = NoCommand
    /\ fetchRaised = {}

\* a local configuration with its remote policies and a device, before
\* diff is called
DiffInit ==
    /\ rpc = "idle"
    /\ localCfg \in Configs
    /\ remotePolicy \in Policies
    /\ device \in Configs
    /\ remote0 = device
    /\ args = DefaultArgs
    /\ diffArgs = ApplyDiffArgs(RemoveNone)
    /\ diff = EmptyDiff
    /\ queue = <<>>
    /\ sent = <<>>
    /\ failedCmd = NoCommand
    /\ fetchRaised = {}

\* UCIConfig.diff called on its own
DiffCall ==
    /\ rpc = "idle"
    /\ \E show \in BOOLEAN, rp \in {NoPackages, Packages({"wireless"})} :
         LET da == [show_remote_only |-> show, remove_packages |-> rp]
         IN  /\ diffArgs' = da
             /\ diff' = ConfigDiff(localCfg, device, da)
    /\ rpc' = "diffed"
    /\ UNCHANGED <<localCfg, remotePolicy, device, remote0, args, queue, sent,
                   failedCmd, fetchRaised>>
    /\ UNCHANGED <<fleetVars, pureVars>>

\* UCIConfig.diff called on its own over a transport that raises for some
\* packages: diff has no try block of its own, so it returns the ConfigDiff
\* of whatever _parse_remote_config returned
DiffCallRaising ==
    /\ rpc = "idle"
    /\ \E show \in BOOLEAN, raised \in SUBSET PackageNames :
         LET da == [show_remote_only |-> show, remove_packages |-> NoPackages]
         IN  /\ diffArgs' = da
             /\ fetchRaised' = raised
             /\ diff' = Diff(GetAllCommands(localCfg),
                             ParseRemoteConfigRaising(device, raised),
                             da.show_remote_only, da.remove_packages)
    /\ rpc' = "diffed"
    /\ UNCHANGED <<localCfg, remotePolicy, device, remote0, args, queue, sent,
                   failedCmd>>
    /\ UNCHANGED <<fleetVars, pureVars>>

DryRunIgnored(dry_run) == FALSE

\* "if dry_run:" of apply and apply_diff: print the commands and return
DryRun(dry_run) == dry_run

\* the arguments of UCIConfig.apply (it has no remove_unmanaged)
ApplyOnlyArgs == {a \in ApplyArgs : a.remove_unmanaged = RemoveNone}

\* UCIConfig.apply up to its try block: every command of the local
\* configuration, no diff; the dry-run return
ApplyCall ==
    /\ rpc = "idle"
    /\ \E a \in ApplyOnlyArgs :
         LET stream == GetAllCommands(localCfg)
                       \o MapSeq(TailCommands(a.auto_commit, a.auto_reload),
                                 ShellCommand)
         IN  /\ args' = a
             /\ IF DryRun(a.dry_run) \/ stream = <<>>
                THEN rpc' = "done" /\ queue' = <<>>
                ELSE rpc' = "exec" /\ queue' = stream
    /\ UNCHANGED <<localCfg, remotePolicy, device, remote0, diffArgs, diff, sent,
                   failedCmd, fetchRaised>>
    /\ UNCHANGED <<fleetVars, pureVars>>

\* apply_diff up to its try block: the diff, the early return of an empty
\* diff, the command list, the dry-run return
ApplyDiffCall ==
    /\ rpc = "idle"
    /\ \E a \in ApplyArgs :
         LET da == ApplyDiffArgs(a.remove_unmanaged)
             df == ConfigDiff(localCfg, device, da)
             stream == CommandsToRun(df, a.remove_unmanaged)
                       \o MapSeq(TailCommands(a.auto_commit, a.auto_reload),
                                 ShellCommand)
         IN  /\ args' = a
             /\ diffArgs' = da
             /\ diff' = df
             /\ IF (IsEmpty(df) /\ df.to_remove = <<>>) \/ DryRun(a.dry_run)
                   \/ stream = <<>>
                THEN rpc' = "done" /\ queue' = <<>>
                ELSE rpc' = "exec" /\ queue' = stream
    /\ UNCHANGED <<localCfg, remotePolicy, device, remote0, sent, failedCmd,
                   fetchRaised>>
    /\ UNCHANGED <<fleetVars, pureVars>>

\* what follows one exec of the stream: a non-zero exit of a uci command
\* raises, a non-zero exit of a reload only prints a warning
AfterExit(c, exit_code, rest) ==
    IF exit_code # 0 /\ ~IsReload(c) THEN "failed"
    ELSE IF rest = <<>> THEN "done" ELSE "exec"

\* one ssh.execute of the try block of apply_diff
ExecCommand ==
    /\ rpc = "exec"
    /\ LET c == Head(queue)
           r == IF c.action = "shell" THEN Accepted(device) ELSE UciExec(device, c)
       IN  \E exit_code \in {0, 1} :
             /\ ~r.ok => exit_code = 1
             /\ sent' = Append(sent, [cmd |-> c, exit |-> exit_code])
             /\ device' = IF exit_code = 0 THEN r.dev ELSE device
             /\ rpc' = AfterExit(c, exit_code, Tail(queue))
             /\ failedCmd' = IF rpc' = "failed" THEN c ELSE failedCmd
             /\ queue' = IF rpc' = "failed" THEN queue ELSE Tail(queue)
    /\ UNCHANGED <<localCfg, remotePolicy, remote0, args, diffArgs, diff,
                   fetchRaised>>
    /\ UNCHANGED <<fleetVars, pureVars>>

\* the matcher is not running
MatchParked ==
    /\ mPath = <<>>
    /\ mPattern = <<>>
    /\ mResult = "none"

\* a path and a pattern, before the matcher is called
MatchInit ==
    /\ mPath \in SeqsUpTo(SegNames, MaxSegs)
    /\ mPattern \in SeqsUpTo(PatternSegs, MaxSegs)
    /\ mResult = "none"

\* policy._match_path_pattern(path, pattern)
MatchCall ==
    /\ mResult = "none"
    /\ mResult' = IF MatchPathPattern(mPath, mPattern) THEN "True" ELSE "False"
    /\ UNCHANGED <<mPath, mPattern>>
    /\ UNCHANGED <<fleetVars, reconVars, parseVars, maskVars>>

ReconNext ==
    \/ ApplyDiffCall
    \/ ExecCommand

InitRecon == FleetInit /\ ReconInit /\ MatchParked /\ ParseParked /\ MaskParked

SpecRecon == InitRecon /\ [][ReconNext]_vars

\* UCIConfig.apply_diff or UCIConfig.apply
ApplyNext ==
    \/ ApplyDiffCall
    \/ ApplyCall
    \/ ExecCommand

SpecApply == InitRecon /\ [][ApplyNext]_vars

DiffNext == DiffCall

\* UCIConfig.diff over a transport that may fail
FetchNext == DiffCallRaising

SpecFetch == InitRecon /\ [][FetchNext]_vars

InitDiff == FleetInit /\ DiffInit /\ MatchParked /\ ParseParked /\ MaskParked

SpecDiff == InitDiff /\ [][DiffNext]_vars

InitFleet == FleetInit /\ ReconParked /\ MatchParked /\ ParseParked /\ MaskParked

InitMatch == FleetInit /\ ReconParked /\ MatchInit /\ ParseParked /\ MaskParked

InitMask == FleetInit /\ ReconParked /\ MatchParked /\ ParseParked /\ MaskInit

MaskNext == DisplayCall

SpecMask == InitMask /\ [][MaskNext]_vars

InitParse == FleetInit /\ ReconParked /\ MatchParked /\ ParseInit /\ MaskParked

ParseNext == ParseCall

SpecParse == InitParse /\ [][ParseNext]_vars

MatchNext == MatchCall

SpecMatch == InitMatch /\ [][MatchNext]_vars

SpecFleet == InitFleet /\ [][FleetNext]_vars

SpecCommit == InitFleet /\ [][CommitNext]_vars

SpecPreview == InitFleet /\ [][PreviewNext]_vars

(***************************************************************************)
(* Fleet executor: properties                                              *)
(***************************************************************************)
StageFailure == \E d \in Devices : wres[d] = "fail"

CommitSentTo(d) == \E i \in 1..Len(log[d]) : IsCommit(log[d][i])

StageReturned == mpc \in {"staged", "done", "commit"}

\* C1: once a device has failed during stage, no "uci commit" (direct or
\* inside the detached commit command) has been sent to any device, and
\* when apply() returns the commit result is marked aborted.
C1_NoCommitAfterStageFailure ==
    StageFailure =>
        /\ \A d \in Devices : ~CommitSentTo(d)
        /\ mpc = "done" => commitAborted

\* apply() returned after one device failed and another one, which had
\* received a mutation command, was staged
C1_Witness ==
    /\ mpc = "done"
    /\ commitAborted
    /\ \E d, e \in Devices :
          /\ wres[d] = "fail"
          /\ wres[e] = "ok"
          /\ Has(log[e], "mutation")

\* C2: when stage() returns aborted, every device whose staging succeeded
\* has received "uci revert" on its transport and the transport was
\* closed after it.
C2_StagedRevertedThenClosed ==
    (mpc = "staged" /\ aborted) =>
        \A d \in Devices :
            wres[d] = "ok" =>
                /\ Before(log[d], "uci revert", "disconnect")
                /\ ~open[d]

\* C3: when stage() returns aborted, every device that was connected,
\* the failing one included, has received "uci revert".
C3_EveryConnectedDeviceReverted ==
    (mpc = "staged" /\ aborted) =>
        \A d \in Devices :
            Has(log[d], "connect") => Has(log[d], "uci revert")

\* C4: when apply() has returned, no transport opened during stage is
\* still open.
C4_NoTransportLeftOpen ==
    mpc = "done" => \A d \in Devices : ~open[d]

(***************************************************************************)
(* Reconciler: properties                                                  *)
(***************************************************************************)
LocalCommands == GetAllCommands(localCfg)

RemoteCommands == ParseRemoteConfig(remote0)

DiffComputed == rpc \in {"diffed", "exec", "done", "failed"}

IsModification(c) == \E i \in 1..Len(diff.to_modify) : diff.to_modify[i][2] = c

\* the group of a command of the stream: 1 deletion, 2 addition,
\* 3 modification, 4 commit, 5 reload (0: none of them)
Group(c) ==
    IF IsReload(c) THEN 5
    ELSE IF IsCommitCmd(c) THEN 4
    ELSE IF IsDeletion(c) THEN 1
    ELSE IF Has(diff.to_add, c) THEN 2
    ELSE IF IsModification(c) THEN 3
    ELSE 0

SentGroups == {Group(sent[i].cmd) : i \in 1..Len(sent)}

\* C5: the commands sent to the transport are deletions, then additions,
\* then modifications, then "uci commit", then reloads: no command of a
\* later group is sent before one of an earlier group.
C5_StreamOrder ==
    \A i, j \in 1..Len(sent) :
        /\ Group(sent[i].cmd) > 0
        /\ i < j => Group(sent[i].cmd) <= Group(sent[j].cmd)

\* a finished run that sent commands of all five groups
C5_Witness == rpc = "done" /\ SentGroups = 1..5

\* C6: a command of the stream (mutation, "uci commit" or service reload)
\* that returned a non-zero exit code is the last command sent, and
\* apply_diff has raised an error naming it.
C6_AbortOnFailure ==
    \A i \in 1..Len(sent) :
        sent[i].exit # 0 =>
            /\ i = Len(sent)
            /\ rpc = "failed"
            /\ failedCmd = sent[i].cmd

\* C7: after a live apply_diff with remove_unmanaged=True has returned,
\* the state of the device equals the local configuration.
C7_Convergence ==
    (rpc = "done" /\ ~args.dry_run /\ args.remove_unmanaged = RemoveAll)
        => device = localCfg

ModifyKeys(df) ==
    UNION {{Key(df.to_modify[i][1]), Key(df.to_modify[i][2])}
           : i \in 1..Len(df.to_modify)}

\* the output sequences of the diff that hold the pair k
Placed(df, k) ==
    {n \in {"to_add", "to_modify", "common", "to_remove", "remote_only"} :
        k \in (CASE n = "to_add" -> KeySet(df.to_add)
                 [] n = "to_modify" -> ModifyKeys(df)
                 [] n = "common" -> KeySet(df.common)
                 [] n = "to_remove" -> KeySet(df.to_remove)
                 [] n = "remote_only" -> KeySet(df.remote_only))}

\* C8: every (path, value) pair of the local or of the remote commands is
\* placed in exactly one output sequence of the diff, and a pair present
\* on both sides is placed in common.
C8_DiffPartition ==
    DiffComputed =>
        \A k \in KeySet(LocalCommands) \cup KeySet(RemoteCommands) :
            /\ Cardinality(Placed(diff, k)) = 1
            /\ (k \in KeySet(LocalCommands) /\ k \in KeySet(RemoteCommands))
                   => Placed(diff, k) = {"common"}

\* paths set on both sides as scalars, with different values
ChangedScalars ==
    {p \in PathSet(LocalCommands) \cap PathSet(RemoteCommands) :
        \E i \in 1..Len(LocalCommands), j \in 1..Len(RemoteCommands) :
            /\ LocalCommands[i].path = p /\ LocalCommands[i].action = "set"
            /\ RemoteCommands[j].path = p /\ RemoteCommands[j].action = "set"
            /\ LocalCommands[i].value # RemoteCommands[j].value}

\* C9: a scalar path set locally and remotely with different values is in
\* to_modify exactly once, as (remote command, local command), and in no
\* other output sequence.
C9_ChangedScalar ==
    DiffComputed =>
        \A p \in ChangedScalars :
            /\ Cardinality({i \in 1..Len(diff.to_modify) :
                              diff.to_modify[i][1].path = p
                              \/ diff.to_modify[i][2].path = p}) = 1
            /\ Has(diff.to_modify,
                   <<FirstSet(RemoteCommands, p), FirstSet(LocalCommands, p)>>)
            /\ p \notin PathSet(diff.to_add) \cup PathSet(diff.to_remove)
                        \cup PathSet(diff.common) \cup PathSet(diff.remote_only)

C9_Witness == DiffComputed /\ ChangedScalars # {}

ListPaths(cmds) ==
    {cmds[i].path : i \in {j \in 1..Len(cmds) : cmds[j].action = "add_list"}}

ListValues(cmds, p) ==
    {cmds[i].value : i \in {j \in 1..Len(cmds) :
                               cmds[j].action = "add_list" /\ cmds[j].path = p}}

\* removal applies to the unmanaged settings of package pkg
RemovalApplies(pkg) ==
    \/ diffArgs.remove_packages.given /\ pkg \in diffArgs.remove_packages.pkgs
    \/ ~diffArgs.remove_packages.given /\ ~diffArgs.show_remote_only

\* the output sequences of the diff that hold the list element (p, v)
ElementIn(p, v) ==
    {n \in {"to_add", "common", "to_remove", "remote_only"} :
        Has(CASE n = "to_add" -> diff.to_add
              [] n = "common" -> diff.common
              [] n = "to_remove" -> diff.to_remove
              [] n = "remote_only" -> diff.remote_only,
            UCICommand("add_list", p, v))}

RemoteOnlyCommands ==
    SelectSeq(RemoteCommands, LAMBDA c : Key(c) \notin KeySet(LocalCommands))

\* the remote command c matches the whitelist of its package's policy
Whitelisted(c) == IsPathWhitelisted(remotePolicy[c.path[1]], RelativePath(c.path))

\* C11: a remote-only command (section, scalar option or list element)
\* whose package-relative path matches the whitelist of its package is
\* placed in whitelisted and is not in to_remove, whatever the removal
\* directive.
C11_WhitelistPreserved ==
    DiffComputed =>
        \A i \in 1..Len(RemoteOnlyCommands) :
            Whitelisted(RemoteOnlyCommands[i]) =>
                /\ ~Has(diff.to_remove, RemoteOnlyCommands[i])
                /\ Has(DiffWhitelisted(diff), RemoteOnlyCommands[i])

\* the remote commands that are on the device only: a list element whose
\* (path, value) pair is not local, a section or scalar option whose path
\* is not local
UnmanagedCommands ==
    SelectSeq(RemoteCommands,
              LAMBDA c : /\ Key(c) \notin KeySet(LocalCommands)
                         /\ \/ c.action = "add_list"
                            \/ c.path \notin PathSet(LocalCommands))

RemovedSections ==
    {s \in diff.remote_sections \ diff.local_sections :
        \E i \in 1..Len(diff.to_remove) : diff.to_remove[i].path = s}

\* how many commands of cmds satisfy Test
Count(cmds, Test(_)) == Cardinality({i \in 1..Len(cmds) : Test(cmds[i])})

\* C13: for a section that is on the device only and marked for removal,
\* the removal commands hold exactly one "delete package.section" and no
\* delete or del_list of an option of that section.
C13_DeletionCollapse ==
    DiffComputed =>
        \A s \in RemovedSections :
            /\ Count(GetRemovalCommands(diff),
                     LAMBDA c : c = UCICommand("delete", s, None)) = 1
            /\ Count(GetRemovalCommands(diff),
                     LAMBDA c : /\ Len(c.path) = 3
                                /\ SubSeq(c.path, 1, 2) = s) = 0

\* a removed section that holds a list of two elements
C13_Witness ==
    /\ DiffComputed
    /\ \E s \in RemovedSections :
          /\ Count(diff.to_remove,
                   LAMBDA c : c.action = "add_list" /\ SubSeq(c.path, 1, 2) = s) >= 2
          /\ Has(GetRemovalCommands(diff), UCICommand("delete", s, None))

\* the values of the add_list commands of cmds on path p, in their order
AddListValues(cmds, p) ==
    LET on == SelectSeq(cmds, LAMBDA c : c.action = "add_list" /\ c.path = p)
    IN  [i \in 1..Len(on) |-> on[i].value]

\* C14: in the commands a configuration emits, the "set package.section =
\* type" of every section comes before every set or add_list on an option
\* of that section, and a list option is emitted as one add_list per
\* element, in the order of the list.
C14_EmissionOrder ==
    DiffComputed =>
        \A s \in Sections :
            localCfg[s].present =>
                /\ \E i \in 1..Len(LocalCommands) :
                      /\ LocalCommands[i] = UCICommand("set", s, SecType(s))
                      /\ \A j \in 1..Len(LocalCommands) :
                            (/\ Len(LocalCommands[j].path) = 3
                             /\ SubSeq(LocalCommands[j].path, 1, 2) = s) => i < j
                /\ \A o \in Range(OptOrder(s)) :
                      localCfg[s].opts[o].kind = "list" =>
                          AddListValues(LocalCommands, s \o <<o>>)
                              = localCfg[s].opts[o].vals

\* a configuration with two sections, one of them with a list of two
\* elements, has been emitted for a diff
C14_Witness ==
    /\ DiffComputed
    /\ \A s \in Sections : localCfg[s].present
    /\ \E s \in Sections, o \in {"ports"} :
          /\ o \in Range(OptOrder(s))
          /\ localCfg[s].opts[o].kind = "list"
          /\ Len(localCfg[s].opts[o].vals) >= 2

\* the packages mutated by the commands apply_diff applied
ChangedPackages ==
    {sent[i].cmd.path[1] : i \in {j \in 1..Len(sent) : sent[j].cmd.action # "shell"}}

ReloadSent(text) == \E i \in 1..Len(sent) : sent[i].cmd = ShellCommand(text)

\* C15: after a reconciliation the reloads sent are exactly those the
\* mutated packages select: network restart iff network or sqm changed,
\* wifi reload iff wireless changed, dnsmasq restart iff dhcp changed; none
\* when no reload is requested.
C15_ReloadSelection ==
    rpc = "done" =>
        /\ ReloadSent("network restart")
              <=> (args.auto_reload /\ ChangedPackages \cap {"network", "sqm"} # {})
        /\ ReloadSent("wifi reload")
              <=> (args.auto_reload /\ "wireless" \in ChangedPackages)
        /\ ReloadSent("dnsmasq restart")
              <=> (args.auto_reload /\ "dhcp" \in ChangedPackages)

\* C16: apply_diff returns normally only if "uci commit" and every reload
\* command it sent returned exit code 0.
C16_DoneOnlyIfReloadsSucceeded ==
    rpc = "done" =>
        \A i \in 1..Len(sent) :
            (IsCommitCmd(sent[i].cmd) \/ IsReload(sent[i].cmd)) => sent[i].exit = 0

\* C18: apply_diff and apply called with dry_run=True send no mutation
\* command, no "uci commit" and no reload, and leave the device as it
\* was, whatever auto_commit, auto_reload and remove_unmanaged are.
C18_DryRunSendsNothing ==
    (rpc # "idle" /\ args.dry_run) => (sent = <<>> /\ device = remote0)

\* a dry run that returned although the device differs from the local
\* configuration and commit and reloads were requested
C18_Witness ==
    /\ rpc = "done"
    /\ args.dry_run /\ args.auto_commit /\ args.auto_reload
    /\ GetAllCommands(localCfg) # <<>>
    /\ device # localCfg
    /\ sent = <<>>

\* what preview may send on a transport: the reads of the remote
\* configuration, between connect and disconnect
ReadOnlyEntries == {"connect", "uci export", "disconnect"}

\* C17: preview sends no mutating command (set, add_list, del_list,
\* delete, commit, revert, reload) to any device, and when it returns its
\* result holds an entry for every selected device, whichever failed.
C17_PreviewReadOnlyNotFailFast ==
    /\ \A d \in Devices : Range(log[d]) \subseteq ReadOnlyEntries
    /\ mpc = "previewed" => \A d \in Devices : result[d] # "none"

\* preview returned with a failed device and a device whose remote
\* configuration was read
C17_Witness ==
    /\ mpc = "previewed"
    /\ \E d, e \in Devices :
          /\ result[d] = "fail"
          /\ result[e] = "ok"
          /\ Has(log[e], "uci export")

(***************************************************************************)
(* Fleet executor: cancellation, commit dispatch, reporting                *)
(***************************************************************************)
\* C22: once the stage phase has observed a device failure (aborted is set),
\* no worker still staging another device sends a further mutation command:
\* no step taken while aborted holds appends a mutation to a device's log.
C22_CooperativeCancellation ==
    [][aborted =>
          \A d \in Devices :
              Len(log'[d]) > Len(log[d]) =>
                  log'[d][Len(log'[d])] # "mutation"]_vars

\* the devices the stage phase staged: it ended without abort and recorded
\* a successful result for them
StagedByStage == {d \in Devices : ~aborted /\ result[d] = "ok"}

\* how many times the detached commit command was sent to d
CommitDispatches(d) ==
    Cardinality({i \in DOMAIN log[d] : log[d][i] = CommitCmd})

\* the position of a step in the commit command (0: not in it)
StepAt(step) ==
    IF \E i \in DOMAIN CommitSteps : CommitSteps[i] = step
    THEN CHOOSE i \in DOMAIN CommitSteps : CommitSteps[i] = step
    ELSE 0

\* C23: when commit() has returned, every staged device has received exactly
\* one detached command, whose steps are sleep, then uci commit, then service
\* reloads only; its transport was closed right after the dispatch, whether
\* the dispatch succeeded or raised; a dispatch that raised on one device did
\* not keep the command from any other staged device.
C23_CommitDispatch ==
    /\ StepAt("sleep") = 1
    /\ StepAt("uci commit") = 2
    /\ \A i \in 3..Len(CommitSteps) : CommitSteps[i] \in Range(ReloadCommands)
    /\ Len(CommitSteps) > 2
    /\ \A d \in Devices :
         /\ CommitDispatches(d) <= 1
         /\ cfut[d] = "done" =>
               /\ CommitDispatches(d) = 1
               /\ ~open[d]
               /\ SubSeq(log[d], Len(log[d]) - 1, Len(log[d]))
                      = <<CommitCmd, "disconnect">>
    /\ (mpc = "done" /\ ~commitAborted) =>
           \A d \in StagedByStage : CommitDispatches(d) = 1 /\ ~open[d]

\* commit() has returned after a dispatch raised on one device and succeeded
\* on another
C23_Witness ==
    /\ mpc = "done"
    /\ ~commitAborted
    /\ StagedByStage = Devices
    /\ \E d, e \in Devices : cres[d] = "fail" /\ cres[e] = "ok"
    /\ \A d \in Devices : CommitDispatches(d) = 1 /\ ~open[d]

\* C24: in the commit phase the commit command has been dispatched to every
\* device commit() serves before a result is recorded, and
\* on_device_complete fired, for any of them.
C24_DispatchBeforeComplete ==
    (\E d \in Devices : commitResult[d] # "none") =>
        \A e \in Devices : cfut[e] # "none" => CommitDispatches(e) = 1

\* C25: in a fleet stage, when the document of any device fails to load,
\* no transport has been opened, and none is opened afterwards, to any device
\* of the fleet.
C25_DocumentErrorBeforeTransport ==
    (\E d \in Devices : wpc[d] = "document error") =>
        \A e \in Devices : ~Has(log[e], "connect")

\* C28: when stage() has returned, every device for which on_device_start
\* fired has an entry in FleetResult.devices and had on_device_complete
\* fired, also when the phase was aborted.
C28_StageReportingComplete ==
    StageReturned =>
        \A d \in started : result[d] # "none" /\ d \in completed

\* C30: when stage() returned aborted the executor holds no staged device
\* and no connection, and commit() calls that follow send no command and
\* return an empty result; the commit command is only ever sent to devices
\* the stage phase staged successfully, and at most once to each.
C30_CommitAfterAbortIsNoOp ==
    /\ (aborted /\ StageReturned) =>
           /\ connections = {}
           /\ staged = {}
           /\ mpc # "commit"
           /\ \A d \in Devices :
                  /\ CommitDispatches(d) = 0
                  /\ cfut[d] = "none"
                  /\ commitResult[d] = "none"
    /\ \A d \in Devices :
           /\ CommitDispatches(d) <= 1
           /\ CommitDispatches(d) = 1 => d \in StagedByStage

\* commit() was called and has returned after an aborted stage that had
\* staged, and then reverted, a device
C30_Witness ==
    /\ aborted
    /\ mpc = "done"
    /\ \E d \in Devices : wres[d] = "ok" /\ Has(log[d], "uci revert")
    /\ \A d \in Devices : ~CommitSentTo(d)

(***************************************************************************)
(* Reading the remote state: properties                                    *)
(***************************************************************************)
\* the local commands of package pkg
LocalOf(pkg) ==
    {c \in Range(GetAllCommands(localCfg)) : c.path[1] = pkg}

\* diff() read package pkg as empty: every local command of it is in to_add
\* and none of what the device holds in it is in the ConfigDiff
ReadAsEmpty(pkg) ==
    /\ LocalOf(pkg) \subseteq Range(diff.to_add)
    /\ \A c \in Range(diff.common) \cup Range(diff.remote_only)
                 \cup Range(diff.to_remove) : c.path[1] # pkg
    /\ \A pair \in Range(diff.to_modify) : pair[2].path[1] # pkg

\* C26: when the transport fails while diff() fetches the configuration of a
\* package, the failure reaches the caller: diff() does not return a
\* ConfigDiff, let alone one in which the package was read as empty.
C26_ReadFailureSurfaced ==
    rpc = "diffed" =>
        /\ fetchRaised = {}
        /\ \A pkg \in fetchRaised : ~ReadAsEmpty(pkg)

(***************************************************************************)
(* apply_diff: no-op, fixpoint                                             *)
(***************************************************************************)
\* C27: a live apply_diff with auto_commit and auto_reload whose diff has
\* nothing to apply (to_add, to_modify and to_remove empty) while the device
\* has remote-only settings sends no command at all.
C27_NoOpSendsNothing ==
    (/\ rpc \in {"exec", "done", "failed"}
     /\ ~args.dry_run /\ args.auto_commit /\ args.auto_reload
     /\ diff.to_add = <<>> /\ diff.to_modify = <<>> /\ diff.to_remove = <<>>
     /\ diff.remote_only # <<>>)
    => sent = <<>>

\* the diff of the local configuration against the device as it is now,
\* with removal of unmanaged state enabled
SecondDiff == ConfigDiff(localCfg, device, ApplyDiffArgs(RemoveAll))

\* C29: after a live apply_diff with remove_unmanaged=True has sent its whole
\* command list, a second diff of the local configuration against the device
\* has to_add, to_modify and to_remove all empty.
C29_Fixpoint ==
    (rpc = "done" /\ ~args.dry_run /\ args.remove_unmanaged = RemoveAll)
        => /\ SecondDiff.to_add = <<>>
           /\ SecondDiff.to_modify = <<>>
           /\ SecondDiff.to_remove = <<>>

(***************************************************************************)
(* Sensitive values: properties                                            *)
(***************************************************************************)
\* the command rendered names a sensitive option and carries a value
SensitiveRendered ==
    /\ kDone
    /\ Lower(kPath[Len(kPath)]) \in SENSITIVE_FIELDS
    /\ kValue # NoValue

\* the length of the longest common prefix of two strings
CommonPrefixLen(a, b) ==
    LET n == IF Len(a) < Len(b) THEN Len(a) ELSE Len(b)
        agree == {k \in 0..n : \A i \in 1..k : a[i] = b[i]}
    IN  CHOOSE k \in agree : \A j \in agree : j <= k

RECURSIVE GlobMatch(_, _)
\* reference glob matcher on segments: "**" stands for zero or more
\* segments, "*" for exactly one, a name for itself
GlobMatch(path_parts, pattern_parts) ==
    IF pattern_parts = <<>> THEN path_parts = <<>>
    ELSE IF Head(pattern_parts) = "**"
    THEN \E i \in 0..Len(path_parts) :
            GlobMatch(SubSeq(path_parts, i + 1, Len(path_parts)),
                      Tail(pattern_parts))
    ELSE /\ path_parts # <<>>
         /\ Head(pattern_parts) \in {"*", Head(path_parts)}
         /\ GlobMatch(Tail(path_parts), Tail(pattern_parts))

\* C19: the matcher returns what the reference glob matcher returns: "**"
\* matches zero or more segments wherever it stands (so "a.**" matches
\* "a"), "*" exactly one.
C19_DoubleStarAnywhere ==
    mResult # "none" => (mResult = "True" <=> GlobMatch(mPath, mPattern))

(***************************************************************************)
(* Show-form parser: properties                                            *)
(***************************************************************************)
\* "@<type>[<i>]"
AnonymousName(type, i) == "@" \o type \o "[" \o ToString(i) \o "]"

\* the anonymous headers of type type among lines
AnonymousCount(lines, type) ==
    Cardinality({i \in 1..Len(lines) :
                    /\ lines[i].kind = "config"
                    /\ lines[i].type = type
                    /\ lines[i].name = ""})

\* the section the line at position i belongs to: the last header at or
\* before i, an anonymous one named by its rank among the anonymous
\* headers of its type (None: no header yet)
SectionAt(lines, i) ==
    LET hs == {j \in 1..i : lines[j].kind = "config"}
    IN  IF hs = {} THEN None
        ELSE LET h == CHOOSE j \in hs : \A k \in hs : k <= j
             IN  IF lines[h].name # "" THEN lines[h].name
                 ELSE AnonymousName(lines[h].type,
                          AnonymousCount(SubSeq(lines, 1, h - 1), lines[h].type))

\* the commands the lines stand for, one per header, option and list line
\* that has a section
ExpectedShowCommands(package, lines) ==
    LET at == {i \in 1..Len(lines) : SectionAt(lines, i) # None}
        Cmd(i) ==
            IF lines[i].kind = "config"
            THEN UCICommand("set", <<package, SectionAt(lines, i)>>, lines[i].type)
            ELSE UCICommand(IF lines[i].kind = "list" THEN "add_list" ELSE "set",
                            <<package, SectionAt(lines, i), lines[i].name>>,
                            lines[i].value)
        all == [i \in 1..Len(lines) |-> [at |-> i \in at, cmd |-> Cmd(i)]]
        kept == SelectSeq(all, LAMBDA e : e.at)
    IN  [i \in 1..Len(kept) |-> kept[i].cmd]

\* C20: a header "config <type>" without a quoted name starts the section
\* "@<type>[<i>]", i counting the anonymous sections of that type in order
\* of appearance, and the option and list lines after it belong to it.
C20_AnonymousSections ==
    pDone => pCommands = ExpectedShowCommands(ShowPackage, pLines)

====
